---- MODULE Spec2Model ----
(***************************************************************************)
(* Ingestion and per-user retrieval pipeline of the Knowledge Assistant    *)
(* RAG backend: src/src/main.py (local entry point, sentence-transformer   *)
(* embeddings + Ollama), src/src/main_railway.py (Railway entry point,     *)
(* Gemini embeddings) and src/src/core/vector_store.py (Qdrant adapter).   *)
(*                                                                         *)
(* Both entry points talk to the same Qdrant store (QDRANT_HOST), the same *)
(* relational database (DATABASE_URL) and the same file system.  Requests  *)
(* are served by worker processes that share them, so two requests         *)
(* interleave at every call to the store, the database or the file system. *)
(***************************************************************************)
EXTENDS Integers, Sequences, FiniteSets, TLC

(***************************************************************************)
(* Bounds of the model.                                                    *)
(***************************************************************************)
\* Total number of upload requests started in one behaviour.
MaxUploads == 2

(***************************************************************************)
(* Users and their identifiers.  A uuid.UUID is 32 hexadecimal digits;     *)
(* str() prints them in groups of 8-4-4-4-12 separated by hyphens.         *)
(***************************************************************************)
UuidLen == 32

ZeroUuid == [i \in 1..UuidLen |-> "0"]

\* The UUID that is all zeros except for digit d at position p.
OneHot(p, d) == [ZeroUuid EXCEPT ![p] = d]

Users == {"alice", "bob"}

\* users.id (GUID primary key): two distinct UUIDs.
UserId(u) == IF u = "alice" THEN OneHot(9, "a") ELSE OneHot(32, "b")

\* str(user_id) for a uuid.UUID
UuidStr(id) ==
    SubSeq(id, 1, 8) \o <<"-">> \o SubSeq(id, 9, 12) \o <<"-">> \o
    SubSeq(id, 13, 16) \o <<"-">> \o SubSeq(id, 17, 20) \o <<"-">> \o
    SubSeq(id, 21, 32)

\* str.replace(old, new) for single characters
Replace(s, old, new) == [i \in 1..Len(s) |-> IF s[i] = old THEN new ELSE s[i]]

UserPrefix == <<"u", "s", "e", "r", "_">>

\* A naming that reads only the first group of the UUID (mutant).
get_user_collection_name_first_group(user_id) ==
    UserPrefix \o
    Replace(UuidStr([i \in 1..UuidLen |-> IF i <= 8 THEN user_id[i] ELSE "0"]),
            "-", "_")

\* A naming that puts every user into the legacy shared collection (mutant).
get_user_collection_name_shared(user_id) ==
    <<"k", "n", "o", "w", "l", "e", "d", "g", "e", "_", "b", "a", "s", "e">>

\* vector_store.get_user_collection_name
get_user_collection_name(user_id) ==
    UserPrefix \o Replace(UuidStr(user_id), "-", "_")

\* main_railway.upload_document, the inline fallback naming
InlineCollectionName(user_id) ==
    UserPrefix \o Replace(UuidStr(user_id), "-", "_")

(***************************************************************************)
(* Embeddings.  A vector is its length and the text it encodes; the        *)
(* all-zero vector that get_embeddings substitutes encodes nothing.        *)
(***************************************************************************)
\* embedding_model.get_sentence_embedding_dimension() of all-MiniLM-L6-v2
embedding_size == 384

\* main_railway.upload_document: vector_size = 768
vector_size == 768

\* gemini_llm.get_embeddings: [0.0] * 768
ZeroVectorLen == 768

Encode(text, dim) == [dim |-> dim, key |-> text]

ZeroVector == [dim |-> ZeroVectorLen, key |-> "zero"]

(***************************************************************************)
(* Uploaded files.  A file is a name and its bytes; parsing a .txt file    *)
(* decodes the bytes into text, here a sequence of paragraphs, and the     *)
(* splitter returns one chunk per paragraph.                               *)
(***************************************************************************)
FileNames == { <<"a", ".", "t", "x", "t">>, <<"a", ".", "x">> }

FileBytes == {"one", "two", "blank"}

\* parse_txt: the text of the bytes
parse_txt(bytes) ==
    CASE bytes = "one" -> <<"p1">>
      [] bytes = "two" -> <<"p2", "p3">>
      [] OTHER -> <<>>

\* text.strip() is empty
IsBlank(text) == text = <<>>

\* chunk_text: the chunks of a text, in document order.  No two paragraphs
\* of a document fit into one chunk together (see TextLen), and each fits
\* into one alone.
chunk_text(text) == text

\* hashlib.sha256 of the file's bytes (main.calculate_file_hash)
calculate_file_hash(bytes) == <<"sha256", bytes>>

\* hashlib.md5(text_content.encode()).hexdigest() (main_railway)
Md5Text(text) == <<"md5", text>>

\* Index of the last "." of a name, 0 when it has none.
LastDot(name) ==
    LET dots == {i \in 1..Len(name) : name[i] = "."}
    IN  IF dots = {} THEN 0 ELSE CHOOSE i \in dots : \A j \in dots : j <= i

\* os.path.splitext(file.filename)[1]
SplitExt(name) ==
    IF LastDot(name) <= 1 THEN <<>> ELSE SubSeq(name, LastDot(name), Len(name))

\* file.filename.split(".")[-1]
SplitLast(name) == SubSeq(name, LastDot(name) + 1, Len(name))

supported_types == { <<".", "p", "d", "f">>, <<".", "t", "x", "t">>,
                     <<".", "d", "o", "c", "x">> }

allowed_types == { <<"p", "d", "f">>, <<"t", "x", "t">>, <<"d", "o", "c", "x">> }

\* os.path.join(UPLOADS_DIR, f"{user.id}_{file.filename}")
UploadPath(u, name) == <<"uploads/">> \o UuidStr(UserId(u)) \o <<"_">> \o name

\* f"/tmp/{file.filename}"
TempPath(name) == <<"/tmp/">> \o name

(***************************************************************************)
(* The Qdrant store: a function from the names of the existing collections *)
(* to their configuration and points.  A point is stored under its id with *)
(* its vector and payload.  Every operation raises when the store cannot   *)
(* be reached (down).                                                      *)
(***************************************************************************)
NoPoints == [i \in {} |-> 0]

\* client.get_collection succeeds
GetCollectionOk(st, name, down) == ~down /\ name \in DOMAIN st

\* A create call that replaces an existing collection (mutant).
CreateOk_recreate(st, name, down) == ~down

\* client.create_collection(name, VectorParams(size, COSINE)) succeeds: the
\* store answers and has no collection of this name.
CreateOk(st, name, down) == ~down /\ name \notin DOMAIN st

CreateCollection(st, name, size) ==
    (name :> [size |-> size, distance |-> "Cosine", points |-> NoPoints]) @@ st

\* client.upsert(Batch(ids, vectors, payloads), wait=True) succeeds: the
\* collection exists and every vector has the collection's size.
UpsertOk(st, name, vectors, down) ==
    /\ ~down
    /\ name \in DOMAIN st
    /\ \A i \in 1..Len(vectors) : vectors[i].dim = st[name].size

\* upsert_vectors: ids=list(range(len(vectors)))
BatchIds(st, name, vectors) == [i \in 1..Len(vectors) |-> i - 1]

\* The store after the batch was written: a point with an id that is
\* already in the collection is overwritten.
Upsert(st, name, ids, vectors, payloads) ==
    LET old == st[name].points
        new == [k \in {ids[i] : i \in 1..Len(ids)} |->
                  LET i == CHOOSE j \in 1..Len(ids) : ids[j] = k
                  IN  [vector |-> vectors[i], payload |-> payloads[i]]]
    IN  [st EXCEPT ![name].points = new @@ old]

\* Cosine similarity of two vectors, in hundredths.
Cosine(q, v) ==
    IF q.key = "zero" \/ v.key = "zero" THEN 0
    ELSE IF q.key = v.key THEN 100 ELSE 50

\* The ids of a collection's points by descending score, ties by id.
RECURSIVE Ranked(_, _, _)
Ranked(points, ids, q) ==
    IF ids = {} THEN <<>>
    ELSE LET best == CHOOSE i \in ids : \A j \in ids :
                        \/ Cosine(q, points[i].vector) > Cosine(q, points[j].vector)
                        \/ /\ Cosine(q, points[i].vector) = Cosine(q, points[j].vector)
                           /\ i <= j
         IN  <<best>> \o Ranked(points, ids \ {best}, q)

\* client.search(collection_name, query_vector, limit, with_payload=True)
\* succeeds: the collection exists and the query has its size.
SearchOk(st, name, q, down) ==
    ~down /\ name \in DOMAIN st /\ q.dim = st[name].size

Search(st, name, q, limit) ==
    LET points == st[name].points
        order  == Ranked(points, DOMAIN points, q)
        top    == SubSeq(order, 1, IF Len(order) < limit THEN Len(order) ELSE limit)
    IN  [i \in 1..Len(top) |->
            [id |-> top[i], payload |-> points[top[i]].payload,
             score |-> Cosine(q, points[top[i]].vector)]]

(***************************************************************************)
(* State.                                                                  *)
(***************************************************************************)
VARIABLES
    app,        \* the entry point that is deployed: "main" or "railway"
    store,      \* the Qdrant store: collection name -> configuration, points
    documents,  \* the rows of the documents table (DocumentMetadata)
    files,      \* the file system: path -> bytes of the temporary files
    req,        \* the upload requests in progress, per request slot
    answer,     \* the outcome of the latest query request
    storeOps,   \* the store calls made by the latest step
    succeeded,  \* the uploads that were stored with no collaborator failing
    nUploads,   \* the number of upload requests started
    naming,     \* the collection names computed for a pair of UUIDs
    auth,       \* the accounts, the issued tokens and the latest auth response
    validation, \* a query request body and what QueryRequest made of it
    chunking    \* a text and the chunks chunk_text returned for it

vars == <<app, store, documents, files, req, answer, storeOps, succeeded,
          nUploads, naming, auth, validation, chunking>>

Reqs == {"r1", "r2"}

\* A request slot: where the request is (pc), its input (user, name, bytes),
\* its local variables (hash, chunks, coll), its response (out, the
\* extension its detail names, n) and, for
\* the properties, what it did: the pipeline stages it entered (did: "save"
\* the temporary file, "db", "parse", "embed", "ensure", "upsert"), why it
\* failed or, before a create call, what its existence check found (why),
\* whether every collaborator answered it (clean), the chunk
\* count of an earlier successful upload of the same bytes by the same user
\* (again, 0 when there is none) and whether it tried to write vectors of
\* another length than its collection's (mismatch), whether the text it
\* extracted was blank (blank), whether its metadata row was inserted
\* (recorded), whether the embedding of one of its chunks failed
\* (unembedded), the number of points its upsert wrote (wrote) and the
\* bytes its parse step read from the temporary file (read).
Idle == [pc |-> "idle", user |-> "none", name |-> <<>>, bytes |-> "none",
         hash |-> <<>>, chunks |-> <<>>, coll |-> <<>>, did |-> {},
         out |-> "none", detail |-> <<>>, n |-> 0, why |-> "none", clean |-> TRUE,
         again |-> 0, mismatch |-> FALSE, blank |-> FALSE, recorded |-> FALSE,
         unembedded |-> FALSE, wrote |-> 0, read |-> "none"]

NoAnswer == [user |-> "none", out |-> "none", coll |-> <<>>, fault |-> "none",
             existed |-> FALSE, empty |-> TRUE, searched |-> FALSE,
             raised |-> FALSE, results |-> <<>>, prompted |-> FALSE,
             context |-> <<>>, cited |-> <<>>, sources |-> <<>>,
             message |-> "none", llm_calls |-> 0, llm |-> "none",
             text |-> "none", query |-> "none", clean |-> TRUE]

\* A call to the store: the operation, the collection it names, the user of
\* the request that made it, whether it returned (ok) or raised, the ids it
\* wrote and, of these, the ids that were in the collection already.
StoreOp(op, coll, u, ok, ids, clash) ==
    [op |-> op, coll |-> coll, user |-> u, ok |-> ok, ids |-> ids, clash |-> clash]

NoNaming == [stage |-> "none"]

NoAuth == [stage |-> "none"]

NoValidation == [stage |-> "none"]

NoChunking == [stage |-> "none"]

\* The chunk count of the earlier clean upload of these bytes by this user.
Again(u, bytes) ==
    LET prior == {x \in succeeded : x.user = u /\ x.bytes = bytes}
    IN  IF prior = {} THEN 0 ELSE (CHOOSE x \in prior : TRUE).n

Init ==
    /\ app = "main"
    /\ store = [n \in {} |-> 0]
    /\ documents = {}
    /\ files = [p \in {} |-> 0]
    /\ req = [r \in Reqs |-> Idle]
    /\ answer = NoAnswer
    /\ storeOps = {}
    /\ succeeded = {}
    /\ nUploads = 0
    /\ naming = NoNaming
    /\ auth = NoAuth
    /\ validation = NoValidation
    /\ chunking = NoChunking

\* os.remove(path) when os.path.exists(path)
Remove(fs, path) == [p \in DOMAIN fs \ {path} |-> fs[p]]

Write(fs, path, bytes) == (path :> bytes) @@ fs

\* The slot of a finished request: its outcome and reported chunk count.
Finished(slot, out, n) ==
    [slot EXCEPT !.pc = "done", !.out = out, !.n = n,
                 !.hash = <<>>, !.chunks = <<>>, !.coll = <<>>]

\* The path of the temporary file of a request.
PathOf(slot) ==
    IF app = "main" THEN UploadPath(slot.user, slot.name) ELSE TempPath(slot.name)

(***************************************************************************)
(* main.upload_file                                                        *)
(***************************************************************************)
\* The slot of a request that starts.
Started(u, name, bytes, clean) ==
    [Idle EXCEPT !.user = u, !.name = name, !.bytes = bytes, !.clean = clean,
                 !.again = Again(u, bytes)]

\* Lines 266-294: validate the extension, save the upload under UPLOADS_DIR.
\* saved is how the write ends: "ok", "open" (open() raises, nothing is
\* written) or "copy" (copyfileobj raises, a truncated file is left).  A
\* failed write raises outside the try block whose finally clause removes
\* the file.
UploadBegin(r, u, name, bytes, saved) ==
    /\ app = "main"
    /\ req[r].pc = "idle"
    /\ nUploads < MaxUploads
    /\ nUploads' = nUploads + 1
    /\ storeOps' = {}
    /\ LET slot == Started(u, name, bytes, saved = "ok")
           path == UploadPath(u, name)
       IN  IF SplitExt(name) \notin supported_types
           THEN /\ saved = "ok"
                /\ req' = [req EXCEPT ![r] =
                      Finished([slot EXCEPT !.detail = SplitExt(name)],
                               "InvalidFileTypeError", 0)]
                /\ UNCHANGED files
           ELSE CASE saved = "ok" ->
                       /\ files' = Write(files, path, bytes)
                       /\ req' = [req EXCEPT ![r] =
                             [slot EXCEPT !.pc = "saved", !.did = {"save"}]]
                  [] saved = "open" ->
                       /\ UNCHANGED files
                       /\ req' = [req EXCEPT ![r] = Finished(slot, "FileProcessingError", 0)]
                  [] OTHER ->
                       /\ files' = Write(files, path, "truncated")
                       /\ req' = [req EXCEPT ![r] =
                             Finished([slot EXCEPT !.did = {"save"}],
                                      "FileProcessingError", 0)]
    /\ UNCHANGED <<app, store, documents, answer, succeeded, naming, auth,
                   validation, chunking>>

\* Lines 298-323: hash the saved file and look for a row of this user with
\* the same hash.  dbfail: session.execute raises, which is logged and the
\* upload continues.
UploadDupCheck(r, dbfail) ==
    LET slot == [req[r] EXCEPT !.clean = @ /\ ~dbfail,
                               !.did = @ \cup (IF UploadPath(req[r].user, req[r].name)
                                                    \in DOMAIN files
                                               THEN {"db"} ELSE {})]
        path == UploadPath(slot.user, slot.name)
    IN
    /\ app = "main"
    /\ slot.pc = "saved"
    /\ storeOps' = {}
    /\ IF path \notin DOMAIN files
       THEN /\ ~dbfail
            /\ req' = [req EXCEPT ![r] = Finished(slot, "FileProcessingError", 0)]
            /\ UNCHANGED files
       ELSE LET h    == calculate_file_hash(files[path])
                rows == {d \in documents : d.user_id = slot.user /\ d.file_hash = h}
            IN  IF ~dbfail /\ rows # {}
                THEN /\ req' = [req EXCEPT ![r] =
                           Finished(slot, "duplicate", (CHOOSE d \in rows : TRUE).chunks_count)]
                     /\ files' = Remove(files, path)
                ELSE /\ req' = [req EXCEPT ![r] = [slot EXCEPT !.pc = "checked", !.hash = h]]
                     /\ UNCHANGED files
    /\ UNCHANGED <<app, store, documents, answer, succeeded, nUploads, naming, auth,
                   validation, chunking>>

\* Lines 325-347: parse, validate, chunk and embed.  embedfail:
\* embedding_model.encode raises.  EmptyFileError raised for an empty chunk
\* list is caught at line 340 and becomes FileProcessingError.
UploadProcess(r, embedfail) ==
    LET slot == [req[r] EXCEPT !.clean = @ /\ ~embedfail]
        path == UploadPath(slot.user, slot.name)
    IN
    /\ app = "main"
    /\ slot.pc = "checked"
    /\ storeOps' = {}
    /\ IF path \notin DOMAIN files
       THEN /\ ~embedfail
            /\ req' = [req EXCEPT ![r] = Finished(slot, "FileProcessingError", 0)]
            /\ UNCHANGED files
       ELSE LET text == parse_txt(files[path])
                did  == slot.did \cup {"parse"}
                seen == [slot EXCEPT !.read = files[path]]
            IN  IF IsBlank(text)
                THEN /\ ~embedfail
                     /\ req' = [req EXCEPT ![r] =
                           Finished([seen EXCEPT !.did = did, !.blank = TRUE],
                                    "EmptyFileError", 0)]
                     /\ files' = Remove(files, path)
                ELSE IF chunk_text(text) = <<>>
                THEN /\ ~embedfail
                     /\ req' = [req EXCEPT ![r] =
                           Finished([seen EXCEPT !.did = did], "FileProcessingError", 0)]
                     /\ files' = Remove(files, path)
                ELSE IF embedfail
                THEN /\ req' = [req EXCEPT ![r] =
                           Finished([seen EXCEPT !.did = did \cup {"embed"},
                                                 !.unembedded = TRUE], "LLMError", 0)]
                     /\ files' = Remove(files, path)
                ELSE /\ req' = [req EXCEPT ![r] =
                           [seen EXCEPT !.pc = "ensure", !.chunks = chunk_text(text),
                                        !.did = did \cup {"embed"}]]
                     /\ UNCHANGED files
    /\ UNCHANGED <<app, store, documents, answer, succeeded, nUploads, naming, auth,
                   validation, chunking>>

(***************************************************************************)
(* vector_store.ensure_user_collection_exists, called by both upload       *)
(* handlers.  Its two store calls are two steps: another request may act   *)
(* between the existence check and the create call.                        *)
(***************************************************************************)
\* The size a handler provisions the collection with.
ProvisionSize == IF app = "main" THEN embedding_size ELSE vector_size

\* Lines 94-101: get_collection; any exception is read as "does not exist".
EnsureCheck(r, down) ==
    LET slot == [req[r] EXCEPT !.clean = @ /\ ~down]
        name == get_user_collection_name(UserId(slot.user))
        ok   == GetCollectionOk(store, name, down)
    IN
    /\ slot.pc = "ensure"
    /\ storeOps' = {StoreOp("get", name, slot.user, ok, {}, {})}
    /\ req' = [req EXCEPT ![r] =
          [slot EXCEPT !.coll = name, !.did = @ \cup {"ensure"},
                       !.pc = IF ok THEN "ensured" ELSE "create",
                       !.why = IF ok THEN "none"
                               ELSE IF down THEN "unchecked" ELSE "absent"]]
    /\ UNCHANGED <<app, store, documents, files, answer, succeeded, nUploads, naming, auth,
                   validation, chunking>>

\* Why create_collection raised: the store is unreachable, or the collection
\* exists, either because another request created it after this request's
\* check found it absent or because the check itself had failed.
CreateFailure(slot, down) ==
    IF down THEN "unreachable"
    ELSE IF slot.why = "absent" THEN "created_by_other" ELSE "already_exists"

\* Lines 104-112: create_collection; a failure is re-raised.  In main.py the
\* caller turns it into VectorStoreError (lines 350-353) and the finally
\* clause removes the temporary file; in main_railway.py the caller falls
\* back to create_collection_if_not_exists (lines 192-197).
EnsureCreate(r, down) ==
    LET slot == [req[r] EXCEPT !.clean = @ /\ ~down]
        ok   == CreateOk(store, slot.coll, down)
    IN
    /\ slot.pc = "create"
    /\ storeOps' = {StoreOp("create", slot.coll, slot.user, ok, {}, {})}
    /\ IF ok
       THEN /\ store' = CreateCollection(store, slot.coll, ProvisionSize)
            /\ req' = [req EXCEPT ![r] = [slot EXCEPT !.pc = "ensured", !.why = "none"]]
            /\ UNCHANGED files
       ELSE /\ UNCHANGED store
            /\ IF app = "main"
               THEN /\ req' = [req EXCEPT ![r] =
                          Finished([slot EXCEPT !.why = CreateFailure(slot, down)],
                                   "VectorStoreError", 0)]
                    /\ files' = Remove(files, PathOf(slot))
               ELSE /\ req' = [req EXCEPT ![r] =
                          [slot EXCEPT !.pc = "fallback", !.why = "none",
                                       !.coll = InlineCollectionName(UserId(slot.user))]]
                    /\ UNCHANGED files
    /\ UNCHANGED <<app, documents, answer, succeeded, nUploads, naming, auth,
                   validation, chunking>>

(***************************************************************************)
(* main.upload_file, continued                                             *)
(***************************************************************************)
\* Lines 356-364: the payloads of the chunks (upload_date is left out).
MainPayloads(slot) ==
    [i \in 1..Len(slot.chunks) |->
        [text |-> slot.chunks[i], source |-> slot.name,
         user_id |-> UuidStr(UserId(slot.user))]]

\* Some vector has another length than the existing collection's size.
Mismatch(st, name, vectors) ==
    /\ name \in DOMAIN st
    /\ \E i \in 1..Len(vectors) : vectors[i].dim # st[name].size

\* The ids of a batch, as a set.
IdSet(ids) == {ids[i] : i \in 1..Len(ids)}

\* The record of an upsert call.
UpsertOp(slot, ok, ids) ==
    StoreOp("upsert", slot.coll, slot.user, ok,
            IF ok THEN IdSet(ids) ELSE {},
            IF ok THEN IdSet(ids) \cap DOMAIN store[slot.coll].points ELSE {})

\* Lines 366-370: upsert_vectors; a failure is VectorStoreError.
UploadStore(r, down) ==
    LET vectors == [i \in 1..Len(req[r].chunks) |->
                       Encode(req[r].chunks[i], embedding_size)]
        slot    == [req[r] EXCEPT !.clean = @ /\ ~down,
                                  !.did = @ \cup {"upsert"},
                                  !.mismatch = Mismatch(store, req[r].coll, vectors)]
        ids     == BatchIds(store, slot.coll, vectors)
        ok      == UpsertOk(store, slot.coll, vectors, down)
    IN
    /\ app = "main"
    /\ slot.pc = "ensured"
    /\ storeOps' = {UpsertOp(slot, ok, ids)}
    /\ IF ok
       THEN /\ store' = Upsert(store, slot.coll, ids, vectors, MainPayloads(slot))
            /\ req' = [req EXCEPT ![r] =
                  [slot EXCEPT !.pc = "stored", !.wrote = Len(vectors)]]
            /\ UNCHANGED files
       ELSE /\ UNCHANGED store
            /\ req' = [req EXCEPT ![r] = Finished(slot, "VectorStoreError", 0)]
            /\ files' = Remove(files, PathOf(slot))
    /\ UNCHANGED <<app, documents, answer, succeeded, nUploads, naming, auth,
                   validation, chunking>>

\* A metadata failure that fails the upload (mutant).
Recorded_strict(slot, ok) ==
    IF ok
    THEN Finished([slot EXCEPT !.recorded = TRUE], "success", Len(slot.chunks))
    ELSE Finished(slot, "FileProcessingError", 0)

\* Lines 383-396: whether or not the row was inserted (ok), the upload
\* answers with the number of chunks.
Recorded(slot, ok) ==
    Finished([slot EXCEPT !.recorded = ok], "success", Len(slot.chunks))

\* Lines 372-412: record the document's metadata, answer, remove the
\* temporary file.  The insert fails when the session fails (dbfail), when
\* os.path.getsize finds no file, or when a row with this file_hash exists
\* (file_hash is unique); the failure is logged and the upload succeeds.
UploadRecord(r, dbfail) ==
    LET slot == [req[r] EXCEPT !.clean = @ /\ ~dbfail, !.did = @ \cup {"db"}]
        path == UploadPath(slot.user, slot.name)
        row  == [user_id |-> slot.user, filename |-> slot.name,
                 chunks_count |-> Len(slot.chunks), file_hash |-> slot.hash]
        ok   == /\ ~dbfail
                /\ path \in DOMAIN files
                /\ \A d \in documents : d.file_hash # slot.hash
    IN
    /\ app = "main"
    /\ slot.pc = "stored"
    /\ storeOps' = {}
    /\ documents' = IF ok THEN documents \cup {row} ELSE documents
    /\ req' = [req EXCEPT ![r] = Recorded(slot, ok)]
    /\ succeeded' = IF slot.clean
                    THEN succeeded \cup {[user |-> slot.user, bytes |-> slot.bytes,
                                          n |-> Len(slot.chunks)]}
                    ELSE succeeded
    /\ files' = Remove(files, path)
    /\ UNCHANGED <<app, store, answer, nUploads, naming, auth,
                   validation, chunking>>

(***************************************************************************)
(* main_railway.upload_document.  Every exception raised inside the        *)
(* handler's try block is caught at lines 260-264: the temporary file is   *)
(* removed when it exists and HTTPException(500) is raised.                *)
(***************************************************************************)
\* Lines 137-147: validate the extension and save the upload as
\* /tmp/<filename>.  An unsupported extension raises before temp_file_path
\* is assigned, so the handler at line 262 raises UnboundLocalError itself,
\* which general_exception_handler answers.
RailwayBegin(r, u, name, bytes, saved) ==
    /\ app = "railway"
    /\ req[r].pc = "idle"
    /\ nUploads < MaxUploads
    /\ nUploads' = nUploads + 1
    /\ storeOps' = {}
    /\ LET slot == Started(u, name, bytes, saved = "ok")
           path == TempPath(name)
       IN  IF SplitLast(name) \notin allowed_types
           THEN /\ saved = "ok"
                /\ req' = [req EXCEPT ![r] = Finished(slot, "InternalServerError", 0)]
                /\ UNCHANGED files
           ELSE IF saved = "ok"
           THEN /\ files' = Write(files, path, bytes)
                /\ req' = [req EXCEPT ![r] =
                      [slot EXCEPT !.pc = "saved", !.did = {"save"}]]
           ELSE /\ files' = Remove(files, path)
                /\ req' = [req EXCEPT ![r] =
                      Finished([slot EXCEPT !.did = IF saved = "copy" THEN {"save"} ELSE {}],
                               "HTTPException500", 0)]
    /\ UNCHANGED <<app, store, documents, answer, succeeded, naming, auth,
                   validation, chunking>>

\* Lines 149-167: parse, reject blank text, chunk, hash the text, open a
\* Qdrant client.  clientfail: get_qdrant_client raises.
RailwayParse(r, clientfail) ==
    LET slot == [req[r] EXCEPT !.clean = @ /\ ~clientfail]
        path == TempPath(slot.name)
    IN
    /\ app = "railway"
    /\ slot.pc = "saved"
    /\ storeOps' = {}
    /\ IF path \notin DOMAIN files
       THEN /\ ~clientfail
            /\ req' = [req EXCEPT ![r] = Finished(slot, "HTTPException500", 0)]
            /\ UNCHANGED files
       ELSE LET text == parse_txt(files[path])
                did  == slot.did \cup {"parse"}
                seen == [slot EXCEPT !.read = files[path]]
            IN  IF IsBlank(text) \/ clientfail
                THEN /\ req' = [req EXCEPT ![r] =
                           Finished([seen EXCEPT !.did = did, !.blank = IsBlank(text)],
                                    "HTTPException500", 0)]
                     /\ files' = Remove(files, path)
                ELSE /\ req' = [req EXCEPT ![r] =
                           [seen EXCEPT !.pc = "ensure", !.chunks = chunk_text(text),
                                        !.hash = Md5Text(text), !.did = did]]
                     /\ UNCHANGED files
    /\ UNCHANGED <<app, store, documents, answer, succeeded, nUploads, naming, auth,
                   validation, chunking>>

\* vector_store.create_collection_if_not_exists (lines 49-52), called with
\* the inline name at lines 195-197: get_collection.
FallbackCheck(r, down) ==
    LET slot == [req[r] EXCEPT !.clean = @ /\ ~down]
        ok   == GetCollectionOk(store, slot.coll, down)
    IN
    /\ slot.pc = "fallback"
    /\ storeOps' = {StoreOp("get", slot.coll, slot.user, ok, {}, {})}
    /\ req' = [req EXCEPT ![r] =
          [slot EXCEPT !.pc = IF ok THEN "ensured" ELSE "fbcreate",
                       !.why = IF ok THEN "none"
                               ELSE IF down THEN "unchecked" ELSE "absent"]]
    /\ UNCHANGED <<app, store, documents, files, answer, succeeded, nUploads, naming, auth,
                   validation, chunking>>

\* vector_store.create_collection_if_not_exists (lines 55-63): create; a
\* failure becomes HTTPException(500) at lines 199-201.
FallbackCreate(r, down) ==
    LET slot == [req[r] EXCEPT !.clean = @ /\ ~down]
        ok   == CreateOk(store, slot.coll, down)
    IN
    /\ slot.pc = "fbcreate"
    /\ storeOps' = {StoreOp("create", slot.coll, slot.user, ok, {}, {})}
    /\ IF ok
       THEN /\ store' = CreateCollection(store, slot.coll, vector_size)
            /\ req' = [req EXCEPT ![r] = [slot EXCEPT !.pc = "ensured", !.why = "none"]]
            /\ UNCHANGED files
       ELSE /\ UNCHANGED store
            /\ req' = [req EXCEPT ![r] =
                  Finished([slot EXCEPT !.why = CreateFailure(slot, down)],
                           "HTTPException500", 0)]
            /\ files' = Remove(files, PathOf(slot))
    /\ UNCHANGED <<app, documents, answer, succeeded, nUploads, naming, auth,
                   validation, chunking>>

\* How gemini_llm.get_embeddings ends for the chunks of one upload: nokey
\* (GEMINI_API_KEY is missing, the call raises for every chunk) or the set
\* of chunks for which genai.embed_content raises.
EmbedOutcomes(chunks) ==
    {[nokey |-> TRUE, bad |-> {}]} \cup
    {[nokey |-> FALSE, bad |-> b] : b \in SUBSET (1..Len(chunks))}

\* gemini_llm.get_embeddings([text])[0]: the zero vector when embed_content
\* raises.
get_embedding(text, bad) == IF bad THEN ZeroVector ELSE Encode(text, vector_size)

\* Lines 212-234: the chunks that got an embedding (a chunk whose
\* get_embeddings call raises is skipped).
Embedded(chunks, e) == IF e.nokey THEN {} ELSE 1..Len(chunks)

\* The increasing enumeration of a set of indices.
RECURSIVE Enum(_)
Enum(S) ==
    IF S = {} THEN <<>>
    ELSE LET m == CHOOSE i \in S : \A j \in S : i <= j
         IN  <<m>> \o Enum(S \ {m})

\* A payload that does not name its owner (mutant).
RailwayPayload_anonymous(slot, i) ==
    [text |-> slot.chunks[i], chunk_index |-> i - 1, filename |-> slot.name,
     file_hash |-> slot.hash]

\* Lines 222-230: the payload of chunk i (chunk_index counts from 0;
\* document_id is left out).
RailwayPayload(slot, i) ==
    [text |-> slot.chunks[i], chunk_index |-> i - 1, filename |-> slot.name,
     user_id |-> UuidStr(UserId(slot.user)), file_hash |-> slot.hash]

\* Lines 207-258: embed chunk by chunk, upsert what was embedded (a failure
\* is logged only), remove the temporary file, answer with len(chunks).
\* os.remove raises when the file is gone, which ends in HTTPException(500).
RailwayStore(r, e, down) ==
    LET path    == TempPath(req[r].name)
        kept    == Enum(Embedded(req[r].chunks, e))
        vectors == [k \in 1..Len(kept) |->
                       get_embedding(req[r].chunks[kept[k]], kept[k] \in e.bad)]
        slot    == [req[r] EXCEPT
                      !.clean = @ /\ ~down /\ ~e.nokey /\ e.bad = {},
                      !.unembedded = e.nokey \/ e.bad # {},
                      !.did = @ \cup {"embed"} \cup (IF kept = <<>> THEN {} ELSE {"upsert"}),
                      !.mismatch = kept # <<>> /\ Mismatch(store, req[r].coll, vectors)]
        pays    == [k \in 1..Len(kept) |-> RailwayPayload(slot, kept[k])]
        ids     == BatchIds(store, slot.coll, vectors)
        ok      == kept # <<>> /\ UpsertOk(store, slot.coll, vectors, down)
        gone    == path \notin DOMAIN files
    IN
    /\ app = "railway"
    /\ slot.pc = "ensured"
    /\ e \in EmbedOutcomes(slot.chunks)
    /\ kept = <<>> => ~down
    /\ store' = IF ok THEN Upsert(store, slot.coll, ids, vectors, pays) ELSE store
    /\ storeOps' = IF kept = <<>> THEN {} ELSE {UpsertOp(slot, ok, ids)}
    /\ req' = [req EXCEPT ![r] =
          LET done == [slot EXCEPT !.wrote = IF ok THEN Len(vectors) ELSE 0]
          IN  IF gone THEN Finished(done, "HTTPException500", 0)
              ELSE Finished(done, "success", Len(slot.chunks))]
    /\ succeeded' = IF slot.clean /\ ~gone /\ ok
                    THEN succeeded \cup {[user |-> slot.user, bytes |-> slot.bytes,
                                          n |-> Len(slot.chunks)]}
                    ELSE succeeded
    /\ files' = Remove(files, path)
    /\ UNCHANGED <<app, documents, answer, nUploads, naming, auth,
                   validation, chunking>>

(***************************************************************************)
(* vector_store.search_vectors                                             *)
(***************************************************************************)
\* How the store behaves during one search_vectors call: "none" (it
\* answers), "down" (unreachable: every call raises), "info" (the second
\* get_collection raises), "search" (client.search raises).
StoreFaults == {"none", "down", "info", "search"}

\* vector_store.collection_exists: False on any exception
collection_exists(st, name, fault) == GetCollectionOk(st, name, fault = "down")

Returned(results) == [raised |-> FALSE, results |-> results]

Raised == [raised |-> TRUE, results |-> <<>>]

\* Lines 166-186, the body of the try block.
search_body(st, name, q, limit, fault) ==
    IF ~collection_exists(st, name, fault) THEN Returned(<<>>)
    ELSE IF fault = "info" THEN Raised
    ELSE IF DOMAIN st[name].points = {} THEN Returned(<<>>)
    ELSE IF ~SearchOk(st, name, q, fault = "search") THEN Raised
    ELSE Returned(Search(st, name, q, limit))

\* search_vectors without its except clause (mutant).
search_vectors_unguarded(st, name, q, limit, fault) ==
    search_body(st, name, q, limit, fault)

\* Lines 165-190: any exception of the body is logged and [] is returned.
search_vectors(st, name, q, limit, fault) ==
    IF search_body(st, name, q, limit, fault).raised
    THEN Returned(<<>>)
    ELSE search_body(st, name, q, limit, fault)

(***************************************************************************)
(* Queries.  A query request is one step: it reads the store and the       *)
(* database and writes nothing, so what it answers depends on the store    *)
(* and the database alone.  Every upload in progress can end without       *)
(* writing either (its next store or database call fails), so each store   *)
(* and database a query can see is also seen with no upload in progress:   *)
(* queries are taken there, and the answer is held until it is delivered.  *)
(***************************************************************************)
QueryTexts == {"p1", "other"}

Quiet == answer.user = "none" /\ \A r \in Reqs : req[r].pc = "idle"

\* payload.get(key, default)
Get(payload, key, default) ==
    IF key \in DOMAIN payload THEN payload[key] ELSE default

\* models.QueryResponse: the fields a response must be given.
QueryResponseFields == {"answer", "sources", "query", "timestamp"}

\* QueryResponse(**given) validates
QueryResponseOk(given) == QueryResponseFields \subseteq given

\* main.py: limit=3
MainLimit == 3

\* main_railway.py: limit=5
RailwayLimit == 5

\* main.query_knowledge_base line 473
OwnedBy(result, u) ==
    Get(result.payload, "user_id", "missing") = UuidStr(UserId(u))

\* The number of characters of a text: p1 is a short paragraph, p2 and p3
\* are paragraphs of 800 and 300 characters.
TextLen(text) == IF text = "p2" THEN 800 ELSE IF text = "p3" THEN 300 ELSE 100

\* main.query_knowledge_base line 508: [:500]
SourceTextMax == 500

\* main.query_knowledge_base line 508: a text of more than 500 characters
\* is cut to its first 500 characters, followed by "...".
Excerpt(text) ==
    IF TextLen(text) > SourceTextMax
    THEN <<"first", SourceTextMax, "of", text, "...">>
    ELSE text

\* main.query_knowledge_base lines 504-511
MainSources(filtered) ==
    [i \in 1..Len(filtered) |->
        [source |-> Get(filtered[i].payload, "source", "Unknown"),
         text   |-> Excerpt(Get(filtered[i].payload, "text", "N/A")),
         score  |-> filtered[i].score]]

\* main_railway.query_documents lines 295-299
RailwaySources(results) ==
    [i \in 1..Len(results) |->
        [filename    |-> Get(results[i].payload, "filename", "Unknown"),
         chunk_index |-> Get(results[i].payload, "chunk_index", 0),
         score       |-> results[i].score]]

\* The record of a query: who asked, how the request ended, what
\* search_vectors was given and returned, what was put into the prompt
\* (context, with prompted telling whether a prompt was built from it),
\* the results the returned sources were built from (cited), the sources and
\* which informational message was chosen, how often the language model was
\* called and how the call ended (llm_calls, llm), the kind of answer
\* text the caller got (text: "none", "message", "generated", "empty"), the
\* query text and whether every collaborator answered the request (query,
\* clean: see About).
Answer(u, out, coll, fault, searched, sv, prompted, context, cited, sources, message) ==
    [user |-> u, out |-> out, coll |-> coll, fault |-> fault,
     existed |-> coll \in DOMAIN store,
     empty |-> IF coll \in DOMAIN store THEN DOMAIN store[coll].points = {} ELSE TRUE,
     searched |-> searched, raised |-> sv.raised, results |-> sv.results,
     prompted |-> prompted, context |-> context, cited |-> cited,
     sources |-> sources, message |-> message, llm_calls |-> 0, llm |-> "none",
     text |-> IF out # "ok" THEN "none"
              ELSE IF message # "none" THEN "message" ELSE "generated",
     query |-> "none", clean |-> TRUE]

\* The record of a query that called the language model once: how the call
\* ended (llm: "ok", "empty" for an empty or whitespace-only text, "raise")
\* and the answer text the caller got.
Asked(a, llm) ==
    [a EXCEPT !.llm_calls = 1, !.llm = llm,
              !.text = IF a.out # "ok" THEN "none"
                       ELSE IF llm = "empty" THEN "empty" ELSE "generated"]

\* The record of a query, with the text that was asked and whether every
\* collaborator (embedder, store, database, language model) answered.
About(a, text, clean) == [a EXCEPT !.query = text, !.clean = clean]

\* main.query_knowledge_base.  embedfail: encode raises; fault: the store;
\* dbfail: the count query raises; llm: "ok", "empty" or "raise".
\* Every QueryResponse the handler builds is given answer and
\* source_documents only, so its validation raises, which line 527 catches.
MainQuery(u, text, embedfail, fault, dbfail, llm) ==
    LET coll     == get_user_collection_name(UserId(u))
        q        == Encode(text, embedding_size)
        sv       == search_vectors(store, coll, q, MainLimit, fault)
        own(x)   == OwnedBy(x, u)
        filtered == SelectSeq(sv.results, own)
        count    == Cardinality({d \in documents : d.user_id = u})
        built    == IF QueryResponseOk({"answer", "source_documents"})
                    THEN "ok" ELSE "LLMError"
        clean    == ~embedfail /\ fault = "none" /\ ~dbfail /\ llm = "ok"
    IN
    /\ app = "main"
    /\ Quiet
    /\ IF embedfail
       THEN /\ fault = "none" /\ ~dbfail /\ llm = "ok"
            /\ storeOps' = {}
            /\ answer' = About(Answer(u, "LLMError", coll, fault, FALSE, Returned(<<>>),
                                      FALSE, <<>>, <<>>, <<>>, "none"), text, clean)
       ELSE /\ storeOps' = {StoreOp("search", coll, u, ~sv.raised, {}, {})}
            /\ IF sv.results = <<>>
               THEN /\ llm = "ok"
                    /\ answer' = About(
                          Answer(u, built, coll, fault, TRUE, sv, FALSE, <<>>, <<>>, <<>>,
                             IF dbfail THEN "rephrase_or_upload"
                             ELSE IF count = 0 THEN "upload_first" ELSE "rephrase"),
                          text, clean)
               ELSE /\ ~dbfail
                    /\ IF filtered = <<>>
                       THEN /\ llm = "ok"
                            /\ answer' = About(
                                  Answer(u, built, coll, fault, TRUE, sv, FALSE,
                                         <<>>, <<>>, <<>>, "filtered_out"), text, clean)
                       ELSE answer' = About(Asked(
                                Answer(u, IF llm = "ok" THEN built ELSE "LLMError",
                                  coll, fault, TRUE, sv, TRUE, filtered,
                                  IF llm = "ok" /\ built = "ok" THEN filtered ELSE <<>>,
                                  IF llm = "ok" /\ built = "ok"
                                  THEN MainSources(filtered) ELSE <<>>, "none"), llm),
                                text, clean)
    /\ UNCHANGED <<app, store, documents, files, req, succeeded, nUploads, naming, auth,
                   validation, chunking>>

\* main_railway.query_documents.  clientfail: get_qdrant_client raises;
\* embed: "ok", "zero" (embed_content raises, get_embeddings returns the
\* zero vector) or "nokey" (GEMINI_API_KEY is missing, get_gemini_client
\* raises before the model is called); llm: "ok", "empty" or "raise".  The
\* model is called whether or not the search found anything.
RailwayQuery(u, text, clientfail, embed, fault, llm) ==
    LET coll    == get_user_collection_name(UserId(u))
        q       == get_embedding(text, embed = "zero")
        skipped == clientfail \/ embed = "nokey"
        sv      == IF skipped THEN Returned(<<>>)
                   ELSE search_vectors(store, coll, q, RailwayLimit, fault)
        results == sv.results
        failed  == embed = "nokey" \/ llm = "raise"
        clean   == ~clientfail /\ embed = "ok" /\ fault = "none" /\ llm = "ok"
    IN
    /\ app = "railway"
    /\ Quiet
    /\ skipped => fault = "none"
    /\ embed = "nokey" => llm = "ok" /\ ~clientfail
    /\ storeOps' = IF skipped THEN {} ELSE {StoreOp("search", coll, u, ~sv.raised, {}, {})}
    /\ LET a == Answer(u, IF failed THEN "HTTPException500" ELSE "ok", coll, fault,
                       ~skipped, sv,
                       embed # "nokey", IF embed = "nokey" THEN <<>> ELSE results,
                       IF failed THEN <<>> ELSE results,
                       IF failed THEN <<>> ELSE RailwaySources(results), "none")
       IN  answer' = About(IF embed = "nokey" THEN a ELSE Asked(a, llm), text, clean)
    /\ UNCHANGED <<app, store, documents, files, req, succeeded, nUploads, naming, auth,
                   validation, chunking>>

(***************************************************************************)
(* The environment: a response is delivered, the other entry point is      *)
(* deployed against the same store, database and file system.              *)
(***************************************************************************)
Deliver ==
    /\ answer.user # "none"
    /\ answer' = NoAnswer
    /\ storeOps' = {}
    /\ UNCHANGED <<app, store, documents, files, req, succeeded, nUploads, naming, auth,
                   validation, chunking>>

Ack(r) ==
    /\ req[r].pc = "done"
    /\ req' = [req EXCEPT ![r] = Idle]
    /\ storeOps' = {}
    /\ UNCHANGED <<app, store, documents, files, answer, succeeded, nUploads, naming, auth,
                   validation, chunking>>

Redeploy(target) ==
    /\ app # target
    /\ Quiet
    /\ app' = target
    /\ storeOps' = {}
    /\ UNCHANGED <<store, documents, files, req, answer, succeeded, nUploads, naming, auth,
                   validation, chunking>>

\* A new request takes the lowest free slot.
Free(r) ==
    /\ answer.user = "none"
    /\ req[r].pc = "idle"
    /\ r = "r2" => req["r1"].pc # "idle"

Next ==
    \/ \E r \in Reqs, u \in Users, name \in FileNames, bytes \in FileBytes,
          saved \in {"ok", "open", "copy"} :
          Free(r) /\ UploadBegin(r, u, name, bytes, saved)
    \/ \E r \in Reqs, dbfail \in BOOLEAN : UploadDupCheck(r, dbfail)
    \/ \E r \in Reqs, embedfail \in BOOLEAN : UploadProcess(r, embedfail)
    \/ \E r \in Reqs, down \in BOOLEAN : EnsureCheck(r, down)
    \/ \E r \in Reqs, down \in BOOLEAN : EnsureCreate(r, down)
    \/ \E r \in Reqs, down \in BOOLEAN : UploadStore(r, down)
    \/ \E r \in Reqs, dbfail \in BOOLEAN : UploadRecord(r, dbfail)
    \/ \E r \in Reqs, u \in Users, name \in FileNames, bytes \in FileBytes,
          saved \in {"ok", "open", "copy"} :
          Free(r) /\ RailwayBegin(r, u, name, bytes, saved)
    \/ \E r \in Reqs, clientfail \in BOOLEAN : RailwayParse(r, clientfail)
    \/ \E r \in Reqs, down \in BOOLEAN : FallbackCheck(r, down)
    \/ \E r \in Reqs, down \in BOOLEAN : FallbackCreate(r, down)
    \/ \E r \in Reqs, down \in BOOLEAN :
          \E e \in EmbedOutcomes(req[r].chunks) : RailwayStore(r, e, down)
    \/ \E u \in Users, text \in QueryTexts, embedfail \in BOOLEAN,
          fault \in StoreFaults, dbfail \in BOOLEAN, llm \in {"ok", "empty", "raise"} :
          MainQuery(u, text, embedfail, fault, dbfail, llm)
    \/ \E u \in Users, text \in QueryTexts, clientfail \in BOOLEAN,
          embed \in {"ok", "zero", "nokey"}, fault \in StoreFaults,
          llm \in {"ok", "empty", "raise"} :
          RailwayQuery(u, text, clientfail, embed, fault, llm)
    \/ Deliver
    \/ \E r \in Reqs : Ack(r)
    \/ \E target \in {"main", "railway"} : Redeploy(target)

Spec == Init /\ [][Next]_vars

(***************************************************************************)
(* Collection naming on its own: get_user_collection_name and the inline   *)
(* fallback of main_railway.upload_document applied to pairs of UUIDs.     *)
(***************************************************************************)
\* The UUIDs the names are computed for: the nil UUID and the UUIDs with one
\* non-zero digit at either end of a hyphen-separated group.
UuidSample ==
    {ZeroUuid} \cup {OneHot(p, d) : p \in {1, 8, 9, 12, 13, 32}, d \in {"1", "f"}}

Unnamed(a, b) ==
    [stage |-> "input", a |-> a, b |-> b, name_a |-> <<>>, name_b |-> <<>>,
     inline_a |-> <<>>, inline_b |-> <<>>, again_a |-> <<>>, again_b |-> <<>>]

InitNaming ==
    /\ app = "main"
    /\ store = [n \in {} |-> 0]
    /\ documents = {}
    /\ files = [p \in {} |-> 0]
    /\ req = [r \in Reqs |-> Idle]
    /\ answer = NoAnswer
    /\ storeOps = {}
    /\ succeeded = {}
    /\ nUploads = 0
    /\ \E a \in UuidSample, b \in UuidSample : naming = Unnamed(a, b)
    /\ auth = NoAuth
    /\ validation = NoValidation
    /\ chunking = NoChunking

\* Both namings are applied to both UUIDs.
ComputeNames ==
    /\ naming.stage = "input"
    /\ naming' = [naming EXCEPT
                    !.stage = "named",
                    !.name_a = get_user_collection_name(naming.a),
                    !.name_b = get_user_collection_name(naming.b),
                    !.inline_a = InlineCollectionName(naming.a),
                    !.inline_b = InlineCollectionName(naming.b)]
    /\ UNCHANGED <<app, store, documents, files, req, answer, storeOps, succeeded,
                   nUploads, auth, validation, chunking>>

\* get_user_collection_name is called a second time on each UUID.
NameAgain ==
    /\ naming.stage = "named"
    /\ naming' = [naming EXCEPT
                    !.stage = "renamed",
                    !.again_a = get_user_collection_name(naming.a),
                    !.again_b = get_user_collection_name(naming.b)]
    /\ UNCHANGED <<app, store, documents, files, req, answer, storeOps, succeeded,
                   nUploads, auth, validation, chunking>>

NextNaming == ComputeNames \/ NameAgain

SpecNaming == InitNaming /\ [][NextNaming]_vars

(***************************************************************************)
(* Authentication on its own: the login route and the current_active_user  *)
(* dependency of /upload and /query (core/auth.py), and the exception      *)
(* handlers that turn what they raise into a response.  fastapi_users is   *)
(* modelled by what its login route, BaseUserManager.authenticate and      *)
(* current_user(active=True) do.                                           *)
(***************************************************************************)
\* The addresses a login is tried with: the two accounts and one that has
\* no account.
Emails == Users \cup {"nobody"}

Passwords == {"right", "wrong"}

\* The password of every account.
PasswordOf(u) == "right"

\* BaseUserManager.authenticate: the user, or None when there is no such
\* user or the password does not verify.
BaseAuthenticate(email, password) ==
    IF email \notin Users THEN "None"
    ELSE IF password # PasswordOf(email) THEN "None"
    ELSE email

\* UserManager.authenticate (auth.py lines 61-78): what is raised inside
\* the try block is caught by the except Exception clause, which raises
\* InvalidCredentialsError.
authenticate(active, email, password) ==
    LET user   == BaseAuthenticate(email, password)
        inside == IF user = "None" THEN "InvalidCredentialsError"
                  ELSE IF ~active[user] THEN "InactiveUserError"
                  ELSE "none"
        caught == IF inside = "none" THEN "none"
                  ELSE IF inside = "UserNotExists" THEN "UserNotFoundError"
                  ELSE "InvalidCredentialsError"
    IN  [raised |-> caught, user |-> IF caught = "none" THEN user ELSE "None"]

\* A response: its status, the error and detail of its body, whether the
\* body has auth_required true, and the token it carries.
Response(status, error, detail, auth_required, token) ==
    [status |-> status, error |-> error, detail |-> detail,
     auth_required |-> auth_required, token |-> token]

\* The response to an AuthenticationError raised by a route: main.py
\* answers it with authentication_exception_handler (lines 87-100),
\* main_railway.py with knowledge_assistant_exception_handler (325-330).
AuthenticationErrorResponse(kind) ==
    Response(401, kind, "Authentication failed due to server error", app = "main", "none")

\* The response to a plain HTTPException raised by fastapi_users: main.py
\* answers it with http_exception_handler (lines 161-173), main_railway.py
\* has no handler for it and FastAPI answers {"detail": ...}.
HTTPExceptionResponse(status, detail) ==
    Response(status, IF app = "main" THEN "HTTPException" ELSE "none", detail, FALSE, "none")

\* POST /auth/jwt/login of fastapi_users.get_auth_router: authenticate; a
\* None or inactive user is HTTPException(400, LOGIN_BAD_CREDENTIALS);
\* otherwise a bearer token for the user is returned.
LoginResponse(active, email, password) ==
    LET a == authenticate(active, email, password)
    IN  IF a.raised # "none" THEN AuthenticationErrorResponse(a.raised)
        ELSE IF a.user = "None" \/ ~active[a.user]
        THEN HTTPExceptionResponse(400, "LOGIN_BAD_CREDENTIALS")
        ELSE Response(200, "none", "none", FALSE, a.user)

\* The bearer values a request may carry: no Authorization header, a token
\* that does not verify, or a token issued for a user.
Bearers == {"missing", "forged"} \cup Users

\* fastapi_users.current_user(active=True): the user of a token that was
\* issued and names an active user, else None.
current_active_user(active, tokens, bearer) ==
    IF bearer \in tokens /\ active[bearer] THEN bearer ELSE "None"

\* What kind of login was tried.
LoginCase(active, email, password) ==
    IF email \notin Users THEN "no_user"
    ELSE IF password # PasswordOf(email) THEN "wrong_password"
    ELSE IF ~active[email] THEN "inactive"
    ELSE "valid"

InitAuth ==
    /\ app \in {"main", "railway"}
    /\ store = [n \in {} |-> 0]
    /\ documents = {}
    /\ files = [p \in {} |-> 0]
    /\ req = [r \in Reqs |-> Idle]
    /\ answer = NoAnswer
    /\ storeOps = {}
    /\ succeeded = {}
    /\ nUploads = 0
    /\ naming = NoNaming
    /\ \E active \in [Users -> BOOLEAN] :
          auth = [stage |-> "start", active |-> active, tokens |-> {},
                  endpoint |-> "none", case |-> "none", entered |-> FALSE,
                  response |-> Response(0, "none", "none", FALSE, "none")]
    /\ validation = NoValidation
    /\ chunking = NoChunking

\* A login request.
Login(email, password) ==
    LET resp == LoginResponse(auth.active, email, password)
    IN
    /\ auth.stage # "none"
    /\ auth' = [auth EXCEPT
                  !.stage = "login",
                  !.endpoint = "/auth/jwt/login",
                  !.case = LoginCase(auth.active, email, password),
                  !.entered = FALSE,
                  !.response = resp,
                  !.tokens = IF resp.token = "none" THEN @ ELSE @ \cup {resp.token}]
    /\ UNCHANGED <<app, store, documents, files, req, answer, storeOps, succeeded,
                   nUploads, naming, validation, chunking>>

\* A superuser deactivates an account (PATCH /users/{id} of
\* fastapi_users.get_users_router); tokens issued before stay in use.
Deactivate(u) ==
    /\ auth.stage # "none"
    /\ auth.active[u]
    /\ auth' = [auth EXCEPT !.stage = "deactivate", !.active[u] = FALSE,
                            !.endpoint = "none", !.case = "none", !.entered = FALSE,
                            !.response = Response(0, "none", "none", FALSE, "none")]
    /\ UNCHANGED <<app, store, documents, files, req, answer, storeOps, succeeded,
                   nUploads, naming, validation, chunking>>

\* A request to /upload or /query: the dependency current_active_user is
\* resolved before the handler is entered; without a user fastapi_users
\* raises HTTPException(401).
Call(endpoint, bearer) ==
    LET user == current_active_user(auth.active, auth.tokens, bearer)
    IN
    /\ auth.stage # "none"
    /\ auth' = [auth EXCEPT
                  !.stage = "call",
                  !.endpoint = endpoint,
                  !.case = IF user # "None" THEN "valid"
                           ELSE IF bearer \in auth.tokens THEN "inactive"
                           ELSE "no_token",
                  !.entered = user # "None",
                  !.response = IF user # "None"
                               THEN Response(200, "none", "none", FALSE, "none")
                               ELSE HTTPExceptionResponse(401, "Unauthorized")]
    /\ UNCHANGED <<app, store, documents, files, req, answer, storeOps, succeeded,
                   nUploads, naming, validation, chunking>>

NextAuth ==
    \/ \E email \in Emails, password \in Passwords : Login(email, password)
    \/ \E u \in Users : Deactivate(u)
    \/ \E endpoint \in {"/upload", "/query"}, bearer \in Bearers : Call(endpoint, bearer)

SpecAuth == InitAuth /\ [][NextAuth]_vars

(***************************************************************************)
(* Properties.                                                             *)
(***************************************************************************)
\* The collection name the isolation test expects for a user.
expected_collection_name(u) ==
    UserPrefix \o Replace(UuidStr(UserId(u)), "-", "_")

\* A search result names this user as its owner.
Owns(u, result) ==
    /\ "user_id" \in DOMAIN result.payload
    /\ result.payload.user_id = UuidStr(UserId(u))

\* The elements of a sequence.
Range(seq) == {seq[i] : i \in 1..Len(seq)}

\* The points of a user's collection.
PointsOf(u) ==
    IF expected_collection_name(u) \in DOMAIN store
    THEN {store[expected_collection_name(u)].points[id] :
             id \in DOMAIN store[expected_collection_name(u)].points}
    ELSE {}

\* C1: whoever asks and whatever was uploaded before, every chunk in the
\* context handed to the language model and every chunk behind the returned
\* sources carries the asking user's id; a search result with a missing or
\* different user_id is in neither.
C1_TenantIsolation ==
    answer.user # "none" =>
        /\ \A c \in Range(answer.context) : Owns(answer.user, c)
        /\ \A c \in Range(answer.cited) : Owns(answer.user, c)
        /\ \A x \in Range(answer.results) :
              ~Owns(answer.user, x) =>
                  x \notin Range(answer.context) \cup Range(answer.cited)

\* C1 happens: a user's query put chunks into the prompt while another user
\* had stored a chunk with the same text.
C1_Witness ==
    /\ answer.user # "none"
    /\ answer.prompted
    /\ answer.context # <<>>
    /\ \E v \in Users \ {answer.user} :
          \E pt \in PointsOf(v) :
             \E c \in Range(answer.context) : c.payload.text = pt.payload.text

\* C2: every call to the store made for a user names the collection of that
\* user, which is no other user's collection, and every point in a user's
\* collection carries that user's id.
C2_OwnCollectionOnly ==
    /\ \A op \in storeOps :
          /\ op.coll = expected_collection_name(op.user)
          /\ \A v \in Users \ {op.user} : op.coll # expected_collection_name(v)
    /\ \A u \in Users : \A pt \in PointsOf(u) :
          /\ "user_id" \in DOMAIN pt.payload
          /\ pt.payload.user_id = UuidStr(UserId(u))

\* C2 happens: an upsert or a search in a user's non-empty collection
\* returned while the other user's collection held points too.
C2_Witness ==
    /\ \E op \in storeOps :
          /\ op.op \in {"upsert", "search"}
          /\ op.ok
          /\ PointsOf(op.user) # {}
          /\ \E v \in Users \ {op.user} : PointsOf(v) # {}

\* C3: no upload fails because another request created the user's
\* collection between its existence check and its create call.
C3_NoProvisioningRace ==
    \A r \in Reqs : req[r].why # "created_by_other"

\* C4: an upload of bytes the same user uploaded successfully before, with
\* every collaborator answering, returns the first upload's chunk count,
\* embeds, provisions and upserts nothing, and leaves exactly one metadata
\* row for the user and the content hash.
C4_DuplicateShortCircuit ==
    \A r \in Reqs :
        (req[r].pc = "done" /\ req[r].again > 0 /\ req[r].clean) =>
            /\ req[r].out \in {"duplicate", "success"}
            /\ req[r].n = req[r].again
            /\ req[r].did \cap {"embed", "ensure", "upsert"} = {}
            /\ Cardinality({d \in documents :
                              /\ d.user_id = req[r].user
                              /\ d.file_hash = calculate_file_hash(req[r].bytes)}) = 1

\* C5: a search in a collection that does not exist or holds no point
\* returns the empty sequence and does not raise, whatever the query vector,
\* the limit and the behaviour of the store.
C5_EmptySearch ==
    (answer.searched /\ (~answer.existed \/ answer.empty)) =>
        /\ ~answer.raised
        /\ answer.results = <<>>

\* C5 happens: a collection that exists and holds no point was searched.
C5_Witness ==
    /\ answer.searched
    /\ answer.existed
    /\ answer.empty

\* C6: a query during which the store is unreachable, or the search call
\* raises, ends in VectorStoreError.
C6_StoreFailureSurfaces ==
    (/\ answer.searched
     /\ \/ answer.fault = "down"
        \/ answer.fault = "search" /\ answer.existed /\ ~answer.empty) =>
        answer.out = "VectorStoreError"

\* C7: no upsert writes a point under an id that a point of the collection
\* already has.
C7_UniquePointIds ==
    \A op \in storeOps : op.op = "upsert" => op.clash = {}

\* C8: every stored vector has the length of its collection, and no upload
\* reports success after trying to write vectors of another length into an
\* existing collection.
C8_DimensionConsistency ==
    /\ \A name \in DOMAIN store : \A id \in DOMAIN store[name].points :
          store[name].points[id].vector.dim = store[name].size
    /\ \A r \in Reqs : req[r].out = "success" => ~req[r].mismatch

\* C9: a call of ensure_user_collection_exists on an existing collection
\* returns the user's collection name and changes nothing in the store,
\* however often it is repeated; on an absent collection, when the create
\* call returns, exactly that collection is added, with the given size,
\* cosine distance and no points.
C9_EnsureIdempotent ==
    [][\A r \in Reqs :
          /\ (req[r].pc = "ensure" /\ req'[r].pc # "ensure") =>
                /\ store' = store
                /\ req'[r].coll = expected_collection_name(req[r].user)
                /\ (/\ req'[r].coll \in DOMAIN store
                    /\ \E op \in storeOps' : op.ok) => req'[r].pc = "ensured"
          /\ (req[r].pc = "create" /\ req'[r].pc # "create") =>
                IF req[r].coll \in DOMAIN store \/ req'[r].pc # "ensured"
                THEN store' = store
                ELSE /\ req'[r].coll = expected_collection_name(req[r].user)
                     /\ DOMAIN store' = DOMAIN store \cup {req[r].coll}
                     /\ store'[req[r].coll] =
                           [size |-> ProvisionSize, distance |-> "Cosine",
                            points |-> NoPoints]
                     /\ \A n \in DOMAIN store : store'[n] = store[n]
      ]_vars

\* C9 happens: the existence check of a request returned for a collection
\* that an earlier request had created and filled.
C9_Witness ==
    \E op \in storeOps :
        /\ op.op = "get"
        /\ op.ok
        /\ PointsOf(op.user) # {}
        /\ \E r \in Reqs : req[r].pc = "ensured" /\ req[r].user = op.user

\* C10: get_user_collection_name yields a name for every UUID, the same
\* name each time it is called on it, different names for different UUIDs,
\* and the name the inline fallback of the Railway upload handler yields.
C10_NamingInjective ==
    naming.stage \in {"named", "renamed"} =>
        /\ Len(naming.name_a) = Len(UserPrefix) + UuidLen + 4
        /\ SubSeq(naming.name_a, 1, Len(UserPrefix)) = UserPrefix
        /\ \A i \in 1..Len(naming.name_a) : naming.name_a[i] # "-"
        /\ (naming.a = naming.b) <=> (naming.name_a = naming.name_b)
        /\ naming.inline_a = naming.name_a
        /\ naming.inline_b = naming.name_b
        /\ naming.stage = "renamed" =>
              /\ naming.again_a = naming.name_a
              /\ naming.again_b = naming.name_b

\* C10 happens: two different UUIDs that agree on their first group were
\* named, twice each.
C10_Witness ==
    /\ naming.stage = "renamed"
    /\ naming.a # naming.b
    /\ SubSeq(naming.a, 1, 8) = SubSeq(naming.b, 1, 8)

\* The extension of a name is outside the supported set.
Unsupported(name) == SplitLast(name) \notin allowed_types

\* C11: an upload of a file with an unsupported extension ends in
\* InvalidFileTypeError whose detail names the extension, and enters no
\* stage of the pipeline: no file is saved, the database, the embedder and
\* the store are not called.
C11_InvalidTypeRejected ==
    \A r \in Reqs :
        (req[r].pc = "done" /\ Unsupported(req[r].name)) =>
            /\ req[r].out = "InvalidFileTypeError"
            /\ SplitLast(req[r].detail) = SplitLast(req[r].name)
            /\ req[r].did = {}

\* C12: an upload whose text is blank ends in EmptyFileError, and stores no
\* vector and no metadata.
C12_EmptyDocumentRejected ==
    \A r \in Reqs :
        (req[r].pc = "done" /\ req[r].blank) =>
            /\ req[r].out = "EmptyFileError"
            /\ req[r].did \cap {"embed", "ensure", "upsert"} = {}
            /\ ~req[r].recorded

\* C13: once an upload that saved a temporary file has completed, and no
\* other upload in progress uses the same path, the file is gone.
C13_TempFileRemoved ==
    \A r \in Reqs :
        (/\ req[r].pc = "done"
         /\ "save" \in req[r].did
         /\ \A o \in Reqs \ {r} : req[o].pc = "idle") =>
            PathOf(req[r]) \notin DOMAIN files

C15_ProvisioningFailureSurfaces ==
    \A r \in Reqs :
        (/\ req[r].pc = "done"
         /\ req[r].why \in {"unreachable", "created_by_other", "already_exists"}) =>
            /\ req[r].out = "VectorStoreError"
            /\ "upsert" \notin req[r].did
            /\ ~req[r].recorded

\* C16: an upload with a chunk whose embedding failed ends in an error and
\* has upserted nothing, and no all-zero vector is in the store.
C16_EmbeddingFailureFailsUpload ==
    /\ \A r \in Reqs :
          (req[r].pc = "done" /\ req[r].unembedded) =>
              /\ req[r].out # "success"
              /\ "upsert" \notin req[r].did
    /\ \A name \in DOMAIN store : \A id \in DOMAIN store[name].points :
          store[name].points[id].vector # ZeroVector

\* The number of metadata rows of a user.
DocCount(u) == Cardinality({d \in documents : d.user_id = u})

\* C17: a query whose search returns nothing is answered successfully with
\* no sources and an informational message: an invitation to upload when
\* the user has no metadata row, to rephrase when the user has one.
C17_ZeroResultsAnswered ==
    (answer.user # "none" /\ answer.searched /\ answer.results = <<>>) =>
        /\ answer.out = "ok"
        /\ answer.sources = <<>>
        /\ answer.text = "message"
        /\ answer.message = IF DocCount(answer.user) = 0
                            THEN "upload_first" ELSE "rephrase"

\* C18: a query calls the language model at most once, and when the call
\* raises or returns an empty text the query fails and returns no answer.
C18_LLMFailureFailsQuery ==
    /\ answer.llm_calls <= 1
    /\ (answer.llm_calls = 1 /\ answer.llm \in {"raise", "empty"}) =>
          /\ answer.out # "ok"
          /\ answer.text = "none"
          /\ answer.sources = <<>>

\* C19: a request to /upload or /query without a valid token, or with the
\* token of an inactive user, is answered 401 with auth_required true in
\* the body, and its handler is not entered.
C19_AuthenticationRequired ==
    (auth.stage = "call" /\ auth.case \in {"no_token", "inactive"}) =>
        /\ auth.response.status = 401
        /\ auth.response.auth_required
        /\ ~auth.entered

\* C20: a login with a wrong password, an unknown address or an inactive
\* account is answered 400 LOGIN_BAD_CREDENTIALS without a token; a login
\* with the right password of an active account is answered 200 with a
\* bearer token.
C20_LoginOutcome ==
    auth.stage = "login" =>
        IF auth.case = "valid"
        THEN /\ auth.response.status = 200
             /\ auth.response.token \in Users
        ELSE /\ auth.response.status = 400
             /\ auth.response.detail = "LOGIN_BAD_CREDENTIALS"
             /\ auth.response.token = "none"

\* core/exceptions.py: the error_type of the typed pipeline failures.
TypedFailures ==
    {"InvalidFileTypeError", "EmptyFileError", "FileProcessingError",
     "VectorStoreError", "LLMError", "ServiceUnavailableError"}

\* C21: every upload and every query that failed was answered with one of
\* the typed pipeline failures: never with an untyped internal error, never
\* with an exception raised by the error path itself.
C21_StructuredErrors ==
    /\ \A r \in Reqs :
          (req[r].pc = "done" /\ req[r].out \notin {"success", "duplicate"}) =>
              req[r].out \in TypedFailures
    /\ (answer.user # "none" /\ answer.out # "ok") =>
          answer.out \in TypedFailures

\* A query asks for a phrase of a document its user uploaded: some upload of
\* the user that ended well, with no collaborator failing, had the query
\* text among its chunks.
AsksUploaded ==
    /\ answer.user # "none"
    /\ answer.clean
    /\ \E s \in succeeded :
          /\ s.user = answer.user
          /\ s.n >= 1
          /\ answer.query \in Range(chunk_text(parse_txt(s.bytes)))

\* C22: a query of a user for a phrase copied from a document the user
\* uploaded successfully is answered with a non-empty source list whose
\* top-scored source is the chunk of that phrase.
C22_UploadedIsRetrievable ==
    AsksUploaded =>
        /\ answer.out = "ok"
        /\ answer.cited # <<>>
        /\ Get(answer.cited[1].payload, "text", "N/A") = answer.query

\* The results of the latest query that belong to its user, in rank order.
Survivors ==
    LET own(x) == OwnedBy(x, answer.user)
    IN  SelectSeq(answer.results, own)

\* C23: a query with surviving chunks for which every collaborator answered
\* returns an answer and one source per surviving chunk, in rank order, at
\* most 3, each with the chunk's file name, its text (cut to 500 characters
\* plus "..." when longer) and its score.
C23_SourceList ==
    (answer.user # "none" /\ answer.clean /\ Survivors # <<>>) =>
        /\ answer.out = "ok"
        /\ answer.text = "generated"
        /\ Len(answer.sources) = Len(Survivors)
        /\ Len(answer.sources) <= MainLimit
        /\ \A i \in 1..Len(answer.sources) :
              answer.sources[i] =
                  [source |-> Get(Survivors[i].payload, "source",
                                  Get(Survivors[i].payload, "filename", "Unknown")),
                   text   |-> Excerpt(Get(Survivors[i].payload, "text", "N/A")),
                   score  |-> Survivors[i].score]

(***************************************************************************)
(* models.QueryRequest on its own.  A string is written as the length of   *)
(* its leading whitespace, the length of its core (from the first to the   *)
(* last character that is not whitespace) and the length of its trailing   *)
(* whitespace; a string of whitespace only has no core and no trail.       *)
(***************************************************************************)
Str(lead, body, trail) == [lead |-> lead, body |-> body, trail |-> trail]

\* len(v)
StrLen(v) == v.lead + v.body + v.trail

\* Field(..., min_length=1)
min_length == 1

\* Field(..., max_length=1000)
max_length == 1000

\* The query strings that are submitted: empty, whitespace only, with and
\* without surrounding whitespace, with lengths around both limits.
QueryInputs ==
    {Str(l, b, t) : l \in {0, 1, 2, 1000, 1001},
                    b \in {0, 1, 997, 998, 999, 1000, 1001},
                    t \in {0, 1, 2}}
    \ {Str(l, 0, t) : l \in {0, 1, 2, 1000, 1001}, t \in {1, 2}}

\* v.strip()
strip(v) == Str(0, v.body, 0)

\* The constraints of the field: min_length and max_length, on the string
\* as it was submitted.
FieldOk(v) == min_length <= StrLen(v) /\ StrLen(v) <= max_length

\* A validator that returns its input as it is (mutant).
validate_query_unstripped(v) ==
    IF StrLen(strip(v)) = 0
    THEN [raised |-> TRUE, value |-> Str(0, 0, 0)]
    ELSE [raised |-> FALSE, value |-> v]

\* QueryRequest.validate_query: ValueError for a string that strips to
\* nothing, the stripped string otherwise.
validate_query(v) ==
    IF StrLen(strip(v)) = 0
    THEN [raised |-> TRUE, value |-> Str(0, 0, 0)]
    ELSE [raised |-> FALSE, value |-> strip(v)]

\* QueryRequest(query=v): the field constraints, then the validator.
QueryRequest(v) ==
    IF ~FieldOk(v) THEN [raised |-> TRUE, value |-> Str(0, 0, 0)]
    ELSE validate_query(v)

InitValidation ==
    /\ app \in {"main", "railway"}
    /\ store = [n \in {} |-> 0]
    /\ documents = {}
    /\ files = [p \in {} |-> 0]
    /\ req = [r \in Reqs |-> Idle]
    /\ answer = NoAnswer
    /\ storeOps = {}
    /\ succeeded = {}
    /\ nUploads = 0
    /\ naming = NoNaming
    /\ auth = NoAuth
    /\ \E v \in QueryInputs :
          validation = [stage |-> "received", raw |-> v, accepted |-> FALSE,
                        query |-> Str(0, 0, 0), status |-> 0, entered |-> FALSE]
    /\ chunking = NoChunking

\* FastAPI builds the QueryRequest from the body of POST /query; when that
\* raises, validation_exception_handler answers 422 and the endpoint
\* function is not called.
Validate ==
    LET made == QueryRequest(validation.raw)
    IN
    /\ validation.stage = "received"
    /\ validation' = [validation EXCEPT
                        !.stage = IF made.raised THEN "answered" ELSE "validated",
                        !.accepted = ~made.raised,
                        !.query = made.value,
                        !.status = IF made.raised THEN 422 ELSE 0]
    /\ UNCHANGED <<app, store, documents, files, req, answer, storeOps, succeeded,
                   nUploads, naming, auth, chunking>>

\* The endpoint function is called with the request it was made.
EnterQuery ==
    /\ validation.stage = "validated"
    /\ validation' = [validation EXCEPT !.stage = "handling", !.entered = TRUE]
    /\ UNCHANGED <<app, store, documents, files, req, answer, storeOps, succeeded,
                   nUploads, naming, auth, chunking>>

NextValidation == Validate \/ EnterQuery

SpecValidation == InitValidation /\ [][NextValidation]_vars

\* C24: QueryRequest accepts a string exactly when it has at least one
\* character that is not whitespace and at most 1000 characters; the query
\* it stores is the string without its leading and trailing whitespace and
\* is not empty; any other string is answered 422 and the endpoint function
\* is not entered.
C24_QueryValidation ==
    LET v == validation.raw
    IN  validation.stage \in {"answered", "validated", "handling"} =>
            /\ validation.accepted <=> (v.body > 0 /\ StrLen(v) <= 1000)
            /\ validation.accepted =>
                  /\ validation.query = Str(0, v.body, 0)
                  /\ StrLen(validation.query) > 0
            /\ ~validation.accepted =>
                  /\ validation.status = 422
                  /\ ~validation.entered

\* C24 happens: a string of exactly 1000 characters with whitespace at both
\* ends was accepted, stored without that whitespace, and handed to the
\* endpoint function.
C24_Witness ==
    /\ validation.stage = "handling"
    /\ validation.raw.lead > 0
    /\ validation.raw.trail > 0
    /\ StrLen(validation.raw) = 1000
    /\ validation.query = Str(0, validation.raw.body, 0)
    /\ validation.entered

(***************************************************************************)
(* processing.chunk_text on its own.  A text is a sequence of characters.  *)
(* RecursiveCharacterTextSplitter is LangChain's: it is modelled by what   *)
(* its split_text does with the default separators, keep_separator=True    *)
(* and strip_whitespace=True.  A chunk is a part of the text, so the       *)
(* pieces and chunks are written as the positions where they start and     *)
(* end.                                                                    *)
(***************************************************************************)
\* chunk_size=1000
chunk_size == 1000

\* chunk_overlap=200
chunk_overlap == 200

\* The default separators: "\n\n", "\n", " ", "".
Separators == << <<"\n", "\n">>, <<"\n">>, <<" ">>, <<>> >>

Whitespace == {" ", "\n"}

\* The first of a set of positions.
First(S) == CHOOSE x \in S : \A y \in S : x <= y

\* A part of a text: the characters from position from to position to.
Part(from, to) == [from |-> from, to |-> to]

\* The position of the first occurrence of sep in text[from..b], 0 when
\* there is none.
Find(text, sep, from, b) ==
    LET hits == {i \in from..(b - Len(sep) + 1) :
                    \A d \in 1..Len(sep) : text[i + d - 1] = sep[d]}
    IN  IF hits = {} THEN 0 ELSE First(hits)

\* re.split: the positions of the occurrences of sep in text[from..b], from
\* left to right, none overlapping the one before it.
RECURSIVE Matches(_, _, _, _)
Matches(text, sep, from, b) ==
    LET i == Find(text, sep, from, b)
    IN  IF i = 0 THEN <<>> ELSE <<i>> \o Matches(text, sep, i + Len(sep), b)

\* _split_text_with_regex with keep_separator=True: the positions where the
\* pieces of text[a..b] start.  A separator starts the piece after it, an
\* empty first piece is dropped, and the empty separator splits the text
\* into its characters.
Cuts(text, a, b, sep) ==
    IF sep = <<>> THEN [k \in 1..(b - a + 1) |-> a + k - 1]
    ELSE LET ms == Matches(text, sep, a, b)
         IN  IF ms # <<>> /\ ms[1] = a THEN ms ELSE <<a>> \o ms

\* Where piece k starts; the piece after the last one starts behind b.
Start(cuts, k, b) == IF k <= Len(cuts) THEN cuts[k] ELSE b + 1

\* The number of characters of the pieces i..j.
Total(cuts, i, j, b) == Start(cuts, j + 1, b) - Start(cuts, i, b)

\* _join_docs: the pieces i..j joined and stripped of the whitespace at both
\* ends, no chunk when nothing is left.
JoinDocs(text, cuts, i, j, b) ==
    LET lo    == Start(cuts, i, b)
        hi    == Start(cuts, j + 1, b) - 1
        solid == {p \in lo..hi : text[p] \notin Whitespace}
    IN  IF solid = {} THEN <<>>
        ELSE <<Part(CHOOSE p \in lo..hi :
                       text[p] \notin Whitespace /\
                       \A q \in lo..(p - 1) : text[q] \in Whitespace,
                    CHOOSE p \in lo..hi :
                       text[p] \notin Whitespace /\
                       \A q \in (p + 1)..hi : text[q] \in Whitespace)>>

\* _merge_splits, the while loop: the first piece that stays in the current
\* chunk i..(m-1) when piece m is about to be added.  Pieces are dropped
\* from the front while the chunk is longer than the overlap, or while
\* piece m does not fit behind it.
Shrink(cuts, i, m, b, size, overlap) ==
    First({j \in i..m :
             ~ \/ Total(cuts, j, m - 1, b) > overlap
               \/ /\ Total(cuts, j, m - 1, b) + Total(cuts, m, m, b) > size
                  /\ Total(cuts, j, m - 1, b) > 0})

\* _merge_splits: the pieces up to hi are collected into chunks of at most
\* size characters.  The current chunk holds the pieces i..(k-1); the first
\* piece m that does not fit behind it closes it, and the next chunk starts
\* with what Shrink keeps of it.
RECURSIVE MergeFrom(_, _, _, _, _, _, _, _)
MergeFrom(text, cuts, i, k, hi, b, size, overlap) ==
    LET over == {m \in k..hi : i < m /\
                    Total(cuts, i, m - 1, b) + Total(cuts, m, m, b) > size}
    IN  IF over = {}
        THEN (IF i > hi THEN <<>> ELSE JoinDocs(text, cuts, i, hi, b))
        ELSE LET m == First(over)
             IN  JoinDocs(text, cuts, i, m - 1, b)
                 \o MergeFrom(text, cuts, Shrink(cuts, i, m, b, size, overlap),
                              m + 1, hi, b, size, overlap)

merge_splits(text, cuts, lo, hi, b, size, overlap) ==
    MergeFrom(text, cuts, lo, lo, hi, b, size, overlap)

\* The position in seps of the separator _split_text chooses: the first one
\* that occurs in the text, the empty separator at the latest.
Chosen(text, a, b, seps) ==
    CHOOSE c \in 1..Len(seps) :
        /\ seps[c] = <<>> \/ Find(text, seps[c], a, b) # 0
        /\ \A j \in 1..(c - 1) : seps[j] # <<>> /\ Find(text, seps[j], a, b) = 0

\* A splitter that does not split a piece that is too long any further
\* (mutant).
split_pieces_flat(text, cuts, g, b, rest, size, overlap) ==
    merge_splits(text, cuts, g, Len(cuts), b, size, overlap)

\* RecursiveCharacterTextSplitter._split_text on text[a..b]: the pieces
\* shorter than size are merged, a longer one is split with the separators
\* that are left.  g is the first of the pieces waiting to be merged.
RECURSIVE split_pieces(_, _, _, _, _, _, _)
RECURSIVE split_text(_, _, _, _, _, _)
split_pieces(text, cuts, g, b, rest, size, overlap) ==
    LET long == {k \in g..Len(cuts) : Total(cuts, k, k, b) >= size}
    IN  IF long = {} THEN merge_splits(text, cuts, g, Len(cuts), b, size, overlap)
        ELSE LET m == First(long)
             IN  merge_splits(text, cuts, g, m - 1, b, size, overlap)
                 \o (IF rest = <<>>
                     THEN <<Part(Start(cuts, m, b), Start(cuts, m + 1, b) - 1)>>
                     ELSE split_text(text, Start(cuts, m, b), Start(cuts, m + 1, b) - 1,
                                     rest, size, overlap))
                 \o split_pieces(text, cuts, m + 1, b, rest, size, overlap)

split_text(text, a, b, seps, size, overlap) ==
    LET c    == Chosen(text, a, b, seps)
        rest == IF seps[c] = <<>> THEN <<>> ELSE SubSeq(seps, c + 1, Len(seps))
    IN  split_pieces(text, Cuts(text, a, b, seps[c]), 1, b, rest, size, overlap)

\* processing.chunk_text on a text given character by character: the parts
\* of the text that are its chunks.
text_splitter(text) ==
    split_text(text, 1, Len(text), Separators, chunk_size, chunk_overlap)

MaxTextLen == 4

\* n times the character c
Rep(c, n) == [i \in 1..n |-> c]

\* The texts that are chunked: every non-empty text of at most MaxTextLen
\* characters over a letter, a space and a newline; two runs of letters of
\* lengths around the chunk size, with and without whitespace around and
\* between them; lines of 100 characters.
Texts ==
    UNION {[1..n -> {"a", " ", "\n"}] : n \in 1..MaxTextLen}
    \cup {lead \o Rep("a", n) \o sep \o Rep("b", m) \o trail :
             lead \in {<<>>, <<" ">>},
             n \in {600, 999, 1000, 1001},
             sep \in {<<>>, <<" ">>, <<"\n", "\n">>},
             m \in {1, 300, 1200},
             trail \in {<<>>, <<"\n">>}}
    \cup {[i \in 1..n |-> IF i % 100 = 0 THEN "\n" ELSE "a"] : n \in {1500, 2050}}

InitChunking ==
    /\ app = "main"
    /\ store = [n \in {} |-> 0]
    /\ documents = {}
    /\ files = [p \in {} |-> 0]
    /\ req = [r \in Reqs |-> Idle]
    /\ answer = NoAnswer
    /\ storeOps = {}
    /\ succeeded = {}
    /\ nUploads = 0
    /\ naming = NoNaming
    /\ auth = NoAuth
    /\ validation = NoValidation
    /\ \E text \in Texts :
          chunking = [stage |-> "text", text |-> text, at |-> <<>>,
                      chunks |-> <<>>, again |-> <<>>]

\* The chunks of a text, given the parts of the text they are.
ChunksAt(text, parts) ==
    [i \in 1..Len(parts) |-> SubSeq(text, parts[i].from, parts[i].to)]

\* chunk_text is called on the text (at: where its chunks lie in the text).
Chunk ==
    /\ chunking.stage = "text"
    /\ \E parts \in {text_splitter(chunking.text)} :
          chunking' = [chunking EXCEPT
                         !.stage = "chunked",
                         !.at = parts,
                         !.chunks = ChunksAt(chunking.text, parts)]
    /\ UNCHANGED <<app, store, documents, files, req, answer, storeOps, succeeded,
                   nUploads, naming, auth, validation>>

\* chunk_text is called on the same text a second time.
ChunkAgain ==
    /\ chunking.stage = "chunked"
    /\ chunking' = [chunking EXCEPT
                      !.stage = "rechunked",
                      !.again = ChunksAt(chunking.text, text_splitter(chunking.text))]
    /\ UNCHANGED <<app, store, documents, files, req, answer, storeOps, succeeded,
                   nUploads, naming, auth, validation>>

NextChunking == Chunk \/ ChunkAgain

SpecChunking == InitChunking /\ [][NextChunking]_vars

\* The character at position p of the text is inside one of the chunks.
Covered(p) ==
    \E i \in 1..Len(chunking.at) : chunking.at[i].from <= p /\ p <= chunking.at[i].to

\* The chunks were returned twice alike, lie in the text in document order
\* and have at most 1000 characters each.
OrderedChunks ==
    /\ chunking.stage = "rechunked" => chunking.again = chunking.chunks
    /\ \A i \in 1..Len(chunking.chunks) :
          /\ Len(chunking.chunks[i]) >= 1
          /\ Len(chunking.chunks[i]) <= 1000
          /\ chunking.chunks[i] =
                SubSeq(chunking.text, chunking.at[i].from, chunking.at[i].to)
          /\ i > 1 => /\ chunking.at[i - 1].from <= chunking.at[i].from
                      /\ chunking.at[i - 1].to <= chunking.at[i].to

\* C25 as stated: chunk_text returns the same chunks each time it is called
\* on a text; the chunks are pieces of the text in document order, none
\* longer than 1000 characters, and every character of the text is in one
\* of them.
C25_ChunkCoverage ==
    chunking.stage \in {"chunked", "rechunked"} =>
        /\ OrderedChunks
        /\ \A p \in 1..Len(chunking.text) : Covered(p)

\* C25 as amended: chunk_text returns the same chunks each time it is
\* called on a text; the chunks are pieces of the text in document order,
\* none longer than 1000 characters, and every character of the text that
\* is not whitespace is in one of them.
C25_ChunkContent ==
    chunking.stage \in {"chunked", "rechunked"} =>
        /\ OrderedChunks
        /\ \A p \in 1..Len(chunking.text) :
              chunking.text[p] \notin Whitespace => Covered(p)

\* C25 happens: a text longer than 1000 characters was split into chunks
\* that overlap, one of them 1000 characters long, and a whitespace
\* character between two chunks is in none of them.
C25_Witness ==
    /\ chunking.stage = "rechunked"
    /\ Len(chunking.text) > 1000
    /\ Len(chunking.chunks) >= 3
    /\ \E i \in 1..Len(chunking.chunks) : Len(chunking.chunks[i]) = 1000
    /\ \E i \in 2..Len(chunking.chunks) : chunking.at[i].from <= chunking.at[i - 1].to
    /\ \E p \in 1..Len(chunking.text) :
          /\ ~Covered(p)
          /\ \E i \in 1..Len(chunking.chunks) : chunking.at[i].to < p
          /\ \E i \in 1..Len(chunking.chunks) : p < chunking.at[i].from

\* C26: an upload that is not a duplicate enters its stages in the order
\* parse and chunk, embed, provision, upsert, record: embedding starts only
\* after parsing, provisioning only after every chunk was embedded, the
\* upsert only after the collection was provisioned, and the metadata row
\* is written only after the upsert wrote the points; an upload answered
\* as a success went through all of these stages and none of them failed.
C26_StageOrder ==
    \A r \in Reqs :
        req[r].out # "duplicate" =>
            /\ "embed" \in req[r].did => "parse" \in req[r].did
            /\ "ensure" \in req[r].did =>
                  "embed" \in req[r].did /\ ~req[r].unembedded
            /\ "upsert" \in req[r].did =>
                  /\ "ensure" \in req[r].did
                  /\ req[r].why = "none"
                  /\ ~req[r].unembedded
            /\ req[r].recorded => "upsert" \in req[r].did /\ req[r].wrote > 0
            /\ (req[r].pc = "done" /\ req[r].out = "success") =>
                  /\ {"parse", "embed", "ensure", "upsert"} \subseteq req[r].did
                  /\ ~req[r].unembedded
                  /\ req[r].wrote > 0

\* The upload requests of a user that were answered and are still on record.
AnsweredOf(u) == {r \in Reqs : req[r].pc = "done" /\ req[r].user = u}

\* The sum of the chunk counts reported to a set of requests.
RECURSIVE Reported(_)
Reported(rs) ==
    IF rs = {} THEN 0
    ELSE LET r == CHOOSE x \in rs : TRUE
         IN  req[r].n + Reported(rs \ {r})

\* C27: when every upload started so far has been answered, and every
\* upload of a user was answered as a success and none as a duplicate, the
\* user's collection holds as many points as these uploads reported chunks.
C27_AdditiveUploads ==
    \A u \in Users :
        (/\ Cardinality({r \in Reqs : req[r].pc = "done"}) = nUploads
         /\ \A r \in AnsweredOf(u) : req[r].out = "success") =>
            Cardinality(PointsOf(u)) = Reported(AnsweredOf(u))

\* C28: when two users have each uploaded the same bytes successfully, with
\* no collaborator failing, each of them has a metadata row for that
\* content.
C28_PerUserRecords ==
    \A s \in succeeded, t \in succeeded :
        (s.user # t.user /\ s.bytes = t.bytes) =>
            /\ DocCount(s.user) >= 1
            /\ \E d \in documents :
                  d.user_id = s.user /\ d.file_hash = calculate_file_hash(s.bytes)

\* C29: every upload parses the bytes it was sent, and from the moment its
\* temporary file is saved until it is answered the file is on disk and
\* holds these bytes.
C29_NoTempFileInterference ==
    \A r \in Reqs :
        /\ "parse" \in req[r].did => req[r].read = req[r].bytes
        /\ req[r].pc \notin {"idle", "done"} =>
              /\ PathOf(req[r]) \in DOMAIN files
              /\ files[PathOf(req[r])] = req[r].bytes

\* C30: an upload answered as a success reports the number of points its
\* upsert wrote, and every one of its chunks was embedded and upserted.
C30_ReportedChunkCount ==
    \A r \in Reqs :
        (req[r].pc = "done" /\ req[r].out = "success") =>
            /\ req[r].n = req[r].wrote
            /\ ~req[r].unembedded
            /\ "upsert" \in req[r].did

====
